---- MODULE Spec2Model ----
(***************************************************************************)
(* Model of img_util.py: the piecewise polynomial plotting routines        *)
(* plotParabolas / plotCubic and the RGB image save / read wrappers.       *)
(*                                                                         *)
(* A call of plotParabolas / plotCubic is stepped statement by statement:  *)
(* the segment loop, the overlay evaluation, the integer scatter loop, the *)
(* closing evaluation and then the calls into the plotting backend, which  *)
(* are recorded in `calls` in the order they are made.                     *)
(***************************************************************************)
EXTENDS Integers, Sequences, FiniteSets, TLC

VARIABLES
    fn,            \* which routine is running: "plotParabolas" or "plotCubic"
    coefficients,  \* argument: flat coefficient vector
    x_vals,        \* argument: breakpoints
    maximize,      \* argument: maximize flag
    x, y,          \* locals: scatter abscissae / ordinates
    y_vals,        \* local: overlay (breakpoint evaluation) sequence
    i, i_bound,    \* local loop index and whether the name is bound yet
    it,            \* position of the iterator of range(len(x_vals)-1)
    x_val, jt,     \* inner loop variable and position of its range iterator
    pc,            \* statement about to execute
    err, errAt,    \* exception raised (if any) and the statement raising it
    calls,         \* plotting-backend calls made so far, in order
    second, prev,  \* a repeated call with the flag flipped, and the first call's outcome
    img, file, result, ipc   \* image round trip: input grid, stored file, grid read back, position

vars == <<fn, coefficients, x_vals, maximize, x, y, y_vals, i, i_bound, it,
          x_val, jt, pc, err, errAt, calls, second, prev, img, file, result, ipc>>

plotVars == <<fn, coefficients, x_vals, maximize, x, y, y_vals, i, i_bound, it,
              x_val, jt, pc, err, errAt, calls, second, prev>>

imgVars == <<img, file, result, ipc>>

-----------------------------------------------------------------------------
(* Bounds of the explored input space.                                     *)

MaxBreakpoints == 3

MaxX == 2

MaxTuples == 2

MaxRows == 1

MaxCols == 2

-----------------------------------------------------------------------------
(* Inputs.                                                                 *)

Routines == {"plotParabolas", "plotCubic"}

TupleSize(f) == IF f = "plotParabolas" THEN 3 ELSE 4

SeqsUpTo(S, n) == UNION {[1..k -> S] : k \in 0..n}

RECURSIVE Flatten(_)
Flatten(ts) == IF ts = <<>> THEN <<>> ELSE Head(ts) \o Flatten(Tail(ts))

\* Coefficient tuples the inputs are assembled from.
TuplePalette(f) ==
    IF f = "plotParabolas" THEN {<<1, 0, 0>>, <<0, 1, 1>>}
    ELSE {<<1, 0, 0, 0>>, <<0, 0, 1, 1>>}

\* Whole tuples, possibly with up to TupleSize-1 trailing values missing, so
\* that every length from 0 to MaxTuples*TupleSize occurs.
CoefficientInputs(f) ==
    {SubSeq(Flatten(ts), 1, Len(Flatten(ts)) - d) :
        ts \in SeqsUpTo(TuplePalette(f), MaxTuples),
        d \in 0..(TupleSize(f) - 1)}

BreakpointInputs == SeqsUpTo(0..MaxX, MaxBreakpoints)

-----------------------------------------------------------------------------
(* Polynomial evaluation as written in the loop bodies.                    *)

\* coefficients[k] (0-based, as in Python)
Coef(k) == coefficients[k + 1]

\* Every subscript of segment s's expression is within the list.
TupleInRange(s) == TupleSize(fn) * s + TupleSize(fn) - 1 < Len(coefficients)

Parabola(s, v) == Coef(3*s) * v * v + Coef(3*s + 1) * v + Coef(3*s + 2)

Cubic(s, v) == Coef(4*s) * v * v * v + Coef(4*s + 1) * v * v + Coef(4*s + 2) * v + Coef(4*s + 3)

EvalSegment(s, v) == IF fn = "plotParabolas" THEN Parabola(s, v) ELSE Cubic(s, v)

\* range(start, stop) yields j while j < stop
RangeHasNext(j, stop) == j < stop

\* stop of the inner range with the closing breakpoint included
InnerStopInclusive == x_vals[i + 2] + 1

\* stop of range(x_vals[i], x_vals[i+1])
InnerStop == x_vals[i + 2]

\* the closing evaluation subscripting the first segment
ClosingSegmentFirst == IF i_bound THEN 0 ELSE i

\* the segment whose coefficients the closing evaluation subscripts
ClosingSegment == i

\* the overlay evaluation carrying the previous segment over the breakpoint
OverlaySegmentPrevious == IF i > 0 THEN i - 1 ELSE i

\* the segment whose coefficients the overlay evaluation at x_vals[i] subscripts
OverlaySegment == i

Call(op, a, b) == [op |-> op, a |-> a, b |-> b]

Raise(e, at) ==
    /\ err' = e
    /\ errAt' = at
    /\ pc' = "raised"

-----------------------------------------------------------------------------
(* plotParabolas / plotCubic                                               *)

InitPlot ==
    /\ fn \in Routines
    /\ coefficients \in CoefficientInputs(fn)
    /\ x_vals \in BreakpointInputs
    /\ maximize \in BOOLEAN
    /\ x = <<>> /\ y = <<>> /\ y_vals = <<>>
    /\ i = 0 /\ i_bound = FALSE /\ it = 0
    /\ x_val = 0 /\ jt = 0
    /\ pc = "entry"
    /\ err = "none" /\ errAt = "none"
    /\ calls = <<>>
    /\ second = FALSE
    /\ prev = [x |-> <<>>, y |-> <<>>, y_vals |-> <<>>, err |-> "none", calls |-> <<>>]

\* the backend selected on entry, before anything is evaluated
EnterSwitchingBackend ==
    /\ pc = "entry"
    /\ x' = <<>> /\ y' = <<>> /\ y_vals' = <<>>
    /\ calls' = Append(calls, Call("switch_backend", <<>>, <<>>))
    /\ pc' = "loop"
    /\ UNCHANGED imgVars
    /\ UNCHANGED <<fn, coefficients, x_vals, maximize, i, i_bound, it, x_val, jt,
                   err, errAt, second, prev>>

\* x = []; y = []; y_vals = []
Enter ==
    /\ pc = "entry"
    /\ x' = <<>> /\ y' = <<>> /\ y_vals' = <<>>
    /\ pc' = "loop"
    /\ UNCHANGED imgVars
    /\ UNCHANGED <<fn, coefficients, x_vals, maximize, i, i_bound, it, x_val, jt,
                   err, errAt, calls, second, prev>>

\* for i in range(len(x_vals)-1):
LoopHead ==
    /\ pc = "loop"
    /\ IF RangeHasNext(it, Len(x_vals) - 1)
       THEN /\ i' = it /\ i_bound' = TRUE /\ it' = it + 1
            /\ pc' = "overlay"
       ELSE /\ pc' = "closing"
            /\ UNCHANGED <<i, i_bound, it>>
    /\ UNCHANGED imgVars
    /\ UNCHANGED <<fn, coefficients, x_vals, maximize, x, y, y_vals, x_val, jt,
                   err, errAt, calls, second, prev>>

\* the overlay entry left out when its coefficients are missing
OverlayEvalLenient ==
    /\ pc = "overlay"
    /\ IF TupleInRange(OverlaySegment)
       THEN y_vals' = Append(y_vals, EvalSegment(OverlaySegment, x_vals[i + 1]))
       ELSE UNCHANGED y_vals
    /\ jt' = x_vals[i + 1]
    /\ pc' = "inner"
    /\ UNCHANGED imgVars
    /\ UNCHANGED <<fn, coefficients, x_vals, maximize, x, y, i, i_bound, it, x_val,
                   err, errAt, calls, second, prev>>

\* the overlay entry left out for a segment with an empty range
OverlayEvalSkipEmpty ==
    /\ pc = "overlay"
    /\ IF TupleInRange(OverlaySegment)
       THEN /\ y_vals' = IF x_vals[i + 1] < x_vals[i + 2]
                         THEN Append(y_vals, EvalSegment(OverlaySegment, x_vals[i + 1]))
                         ELSE y_vals
            /\ jt' = x_vals[i + 1]
            /\ pc' = "inner"
            /\ UNCHANGED <<err, errAt>>
       ELSE /\ Raise("IndexError", "overlay")
            /\ UNCHANGED <<y_vals, jt>>
    /\ UNCHANGED imgVars
    /\ UNCHANGED <<fn, coefficients, x_vals, maximize, x, y, i, i_bound, it, x_val,
                   calls, second, prev>>

\* y_vals.append(P_i(x_vals[i])), then the inner range is created
OverlayEval ==
    /\ pc = "overlay"
    /\ IF TupleInRange(OverlaySegment)
       THEN /\ y_vals' = Append(y_vals, EvalSegment(OverlaySegment, x_vals[i + 1]))
            /\ jt' = x_vals[i + 1]
            /\ pc' = "inner"
            /\ UNCHANGED <<err, errAt>>
       ELSE /\ Raise("IndexError", "overlay")
            /\ UNCHANGED <<y_vals, jt>>
    /\ UNCHANGED imgVars
    /\ UNCHANGED <<fn, coefficients, x_vals, maximize, x, y, i, i_bound, it, x_val,
                   calls, second, prev>>

\* for x_val in range(x_vals[i], x_vals[i+1]): x.append(x_val); y.append(P_i(x_val))
InnerBody ==
    /\ pc = "inner"
    /\ IF RangeHasNext(jt, InnerStop)
       THEN /\ x_val' = jt /\ jt' = jt + 1
            /\ x' = Append(x, jt)
            /\ IF TupleInRange(i)
               THEN /\ y' = Append(y, EvalSegment(i, jt))
                    /\ pc' = "inner"
                    /\ UNCHANGED <<err, errAt>>
               ELSE /\ Raise("IndexError", "scatter")
                    /\ UNCHANGED y
       ELSE /\ pc' = "loop"
            /\ UNCHANGED <<x, y, x_val, jt, err, errAt>>
    /\ UNCHANGED imgVars
    /\ UNCHANGED <<fn, coefficients, x_vals, maximize, y_vals, i, i_bound, it,
                   calls, second, prev>>

\* y_vals.append(P_i(x_vals[len(x_vals)-1])) after the loop
ClosingEval ==
    /\ pc = "closing"
    /\ IF ~i_bound
       THEN /\ Raise("UnboundLocalError", "closing")
            /\ UNCHANGED y_vals
       ELSE IF ~TupleInRange(ClosingSegment)
       THEN /\ Raise("IndexError", "closing")
            /\ UNCHANGED y_vals
       ELSE /\ y_vals' = Append(y_vals, EvalSegment(ClosingSegment, x_vals[Len(x_vals)]))
            /\ pc' = "switch_backend"
            /\ UNCHANGED <<err, errAt>>
    /\ UNCHANGED imgVars
    /\ UNCHANGED <<fn, coefficients, x_vals, maximize, x, y, i, i_bound, it, x_val, jt,
                   calls, second, prev>>

\* a call into the plotting backend: recorded, nothing else changes
Backend(newCalls, next) ==
    /\ calls' = calls \o newCalls
    /\ pc' = next
    /\ UNCHANGED imgVars
    /\ UNCHANGED <<fn, coefficients, x_vals, maximize, x, y, y_vals, i, i_bound, it,
                   x_val, jt, err, errAt, second, prev>>

\* plt.switch_backend('TkAgg')
SwitchBackend ==
    /\ pc = "switch_backend"
    /\ Backend(<<Call("switch_backend", <<>>, <<>>)>>, "maximize")

\* the resize made whatever the flag
MaximizeStepAlways ==
    /\ pc = "maximize"
    /\ Backend(<<Call("resize", <<>>, <<>>)>>, "title")

\* if (maximize): fig_manager.resize(...)
MaximizeStep ==
    /\ pc = "maximize"
    /\ Backend(IF maximize THEN <<Call("resize", <<>>, <<>>)>> ELSE <<>>, "title")

\* plt.title(...), and for plotCubic the axis labels and tick parameters
Decorate ==
    /\ pc = "title"
    /\ Backend(IF fn = "plotParabolas" THEN <<Call("title", <<>>, <<>>)>>
               ELSE <<Call("title", <<>>, <<>>), Call("xlabel", <<>>, <<>>),
                      Call("ylabel", <<>>, <<>>), Call("tick_params", <<>>, <<>>)>>,
               "scatter")

\* plt.scatter(x, y)
Scatter ==
    /\ pc = "scatter"
    /\ Backend(<<Call("scatter", x, y)>>, "plot")

\* plt.plot(x_vals, y_vals, color='r')
PlotCurve ==
    /\ pc = "plot"
    /\ Backend(<<Call("plot", x_vals, y_vals)>>, "plot_max")

\* plt.plot(max_x, max_y, 'bo')
PlotMax ==
    /\ pc = "plot_max"
    /\ Backend(<<Call("plot_max", <<>>, <<>>)>>, "show")

\* plt.show()
Show ==
    /\ pc = "show"
    /\ Backend(<<Call("show", <<>>, <<>>)>>, "done")

Next ==
    \/ Enter
    \/ LoopHead
    \/ OverlayEval
    \/ InnerBody
    \/ ClosingEval
    \/ SwitchBackend
    \/ MaximizeStep
    \/ Decorate
    \/ Scatter
    \/ PlotCurve
    \/ PlotMax
    \/ Show

ImgIdle ==
    /\ img = <<>> /\ file = <<>> /\ result = <<>> /\ ipc = "none"

Init == InitPlot /\ ImgIdle

Spec == Init /\ [][Next]_vars

\* The sequential program keeps executing until it returns or raises.
FairSpec == Spec /\ WF_vars(Next)

-----------------------------------------------------------------------------
(* The caller invoking the same routine again with the same arguments and  *)
(* the maximize flag flipped: fresh locals, the first outcome kept aside.  *)

CallAgain ==
    /\ pc \in {"done", "raised"}
    /\ ~second
    /\ second' = TRUE
    /\ prev' = [x |-> x, y |-> y, y_vals |-> y_vals, err |-> err, calls |-> calls]
    /\ maximize' = ~maximize
    /\ x' = <<>> /\ y' = <<>> /\ y_vals' = <<>>
    /\ i' = 0 /\ i_bound' = FALSE /\ it' = 0
    /\ x_val' = 0 /\ jt' = 0
    /\ pc' = "entry"
    /\ err' = "none" /\ errAt' = "none"
    /\ calls' = <<>>
    /\ UNCHANGED imgVars
    /\ UNCHANGED <<fn, coefficients, x_vals>>

NextPair ==
    \/ Next
    \/ CallAgain

SpecPair == Init /\ [][NextPair]_vars

-----------------------------------------------------------------------------
(* saveImageRGB / readImageRGB over a codec that stores what it is given.  *)

\* channel values of an 8-bit image that the grids are built from
Channels == {0, 255}

Pixels == [1..3 -> Channels]

Grids == UNION {[1..r -> [1..c -> Pixels]] : r \in 1..MaxRows, c \in 1..MaxCols}

\* cv2.cvtColor(m, cv2.COLOR_RGB2BGR): first and third channel exchanged in every pixel
cvtColor_RGB2BGR(m) ==
    [r \in DOMAIN m |-> [c \in DOMAIN m[r] |-> <<m[r][c][3], m[r][c][2], m[r][c][1]>>]]

InitImg ==
    /\ img \in Grids
    /\ file = <<>> /\ result = <<>>
    /\ ipc = "start"

PlotIdle ==
    /\ fn = "none" /\ coefficients = <<>> /\ x_vals = <<>> /\ maximize = FALSE
    /\ x = <<>> /\ y = <<>> /\ y_vals = <<>>
    /\ i = 0 /\ i_bound = FALSE /\ it = 0 /\ x_val = 0 /\ jt = 0
    /\ pc = "none" /\ err = "none" /\ errAt = "none" /\ calls = <<>>
    /\ second = FALSE
    /\ prev = [x |-> <<>>, y |-> <<>>, y_vals |-> <<>>, err |-> "none", calls |-> <<>>]

\* cv2.imwrite(name, cv2.cvtColor(img, cv2.COLOR_RGB2BGR))
saveImageRGB ==
    /\ ipc = "start"
    /\ file' = cvtColor_RGB2BGR(img)
    /\ ipc' = "saved"
    /\ UNCHANGED <<img, result>>
    /\ UNCHANGED plotVars

\* reading back without the channel conversion
readImageRGBRaw ==
    /\ ipc = "saved"
    /\ result' = file
    /\ ipc' = "read"
    /\ UNCHANGED <<img, file>>
    /\ UNCHANGED plotVars

\* return cv2.cvtColor(cv2.imread(name, cv2.IMREAD_COLOR), cv2.COLOR_RGB2BGR)
readImageRGB ==
    /\ ipc = "saved"
    /\ result' = cvtColor_RGB2BGR(file)
    /\ ipc' = "read"
    /\ UNCHANGED <<img, file>>
    /\ UNCHANGED plotVars

NextImg ==
    \/ saveImageRGB
    \/ readImageRGB

InitRoundTrip == InitImg /\ PlotIdle

SpecImg == InitRoundTrip /\ [][NextImg]_vars

-----------------------------------------------------------------------------
(* What the routines are said to compute, stated independently of the      *)
(* statements above: segment s owns the coefficient tuple                  *)
(* [s*T, s*T+T) and the integers of [breakpoint s, breakpoint s+1).        *)

Segments == Len(x_vals) - 1

ValidLength == Len(coefficients) = Segments * TupleSize(fn)

TooShort == Len(coefficients) < Segments * TupleSize(fn)

TooLong == Len(coefficients) > Segments * TupleSize(fn)

\* breakpoint k, 0-based
Breakpoint(k) == x_vals[k + 1]

FinalBreakpoint == x_vals[Len(x_vals)]

SegmentTuple(s) == SubSeq(coefficients, s * TupleSize(fn) + 1, s * TupleSize(fn) + TupleSize(fn))

Polynomial(c, v) ==
    IF Len(c) = 3 THEN c[1] * v * v + c[2] * v + c[3]
    ELSE c[1] * v * v * v + c[2] * v * v + c[3] * v + c[4]

P(s, v) == Polynomial(SegmentTuple(s), v)

RECURSIVE PointsFrom(_, _, _)
PointsFrom(s, v, stop) ==
    IF v >= stop THEN <<>> ELSE << <<v, P(s, v)>> >> \o PointsFrom(s, v + 1, stop)

RECURSIVE ScatterFrom(_)
ScatterFrom(s) ==
    IF s >= Segments THEN <<>>
    ELSE PointsFrom(s, Breakpoint(s), Breakpoint(s + 1)) \o ScatterFrom(s + 1)

RECURSIVE IncreasingScatterFrom(_)
IncreasingScatterFrom(s) ==
    IF s >= Segments THEN <<>>
    ELSE IF Breakpoint(s) >= Breakpoint(s + 1) THEN IncreasingScatterFrom(s + 1)
    ELSE PointsFrom(s, Breakpoint(s), Breakpoint(s + 1)) \o IncreasingScatterFrom(s + 1)

ScatterPairs == [k \in 1..Len(x) |-> <<x[k], y[k]>>]

StrictlyIncreasing == \A k \in 0..(Segments - 1) : Breakpoint(k) < Breakpoint(k + 1)

NonDecreasing == \A k \in 0..(Segments - 1) : Breakpoint(k) <= Breakpoint(k + 1)

BackendPcs == {"switch_backend", "maximize", "title", "scatter", "plot", "plot_max", "show"}

\* the segment loop has been left
LoopFinished == pc \in ({"closing", "done"} \cup BackendPcs) \/ (pc = "raised" /\ errAt = "closing")

\* the closing evaluation has been appended
OverlayFinished == pc \in ({"done"} \cup BackendPcs)

Discontinuous(s) == P(s - 1, Breakpoint(s)) # P(s, Breakpoint(s))

HasResize(cs) == \E k \in 1..Len(cs) : cs[k].op = "resize"

IsResize(c) == c.op = "resize"

NotResize(c) == ~IsResize(c)

WithoutResize(cs) == SelectSeq(cs, NotResize)

-----------------------------------------------------------------------------
\* C1 (as stated): with a coefficient vector of the exact length, once the
\* segment loop is left the scatter is exactly the pairs (v, P_s(v)) for
\* s = 0..segments-1 in order and breakpoint s <= v < breakpoint s+1 in
\* increasing order, and the final breakpoint is the abscissa of no pair.
C1_ScatterExactAndFinalAbsent ==
    (ValidLength /\ LoopFinished) =>
        /\ Len(x) = Len(y)
        /\ ScatterPairs = ScatterFrom(0)
        /\ \A k \in 1..Len(x) : x[k] # FinalBreakpoint

\* C1 (amended): the scatter is exactly that sequence for every breakpoint
\* sequence; the final breakpoint is the abscissa of no pair when the
\* breakpoints are non-decreasing.
C1_ScatterExact ==
    (ValidLength /\ LoopFinished) =>
        /\ Len(x) = Len(y)
        /\ ScatterPairs = ScatterFrom(0)
        /\ (NonDecreasing => \A k \in 1..Len(x) : x[k] # FinalBreakpoint)

\* y = x^3 over [0, 2] has been rendered as (0,0), (1,1)
C1_Witness ==
    /\ pc = "done" /\ fn = "plotCubic"
    /\ coefficients = <<1, 0, 0, 0>> /\ x_vals = <<0, 2>>
    /\ x = <<0, 1>> /\ y = <<0, 1>>

\* C2: for a coefficient vector of the exact length and at least one segment,
\* the call does not raise and the overlay has len(breakpoints) entries:
\* entry s is P_s(breakpoint s) and the last entry is the last segment's
\* polynomial at the final breakpoint.
C2_OverlayClosedByLastSegment ==
    (ValidLength /\ Segments >= 1) =>
        /\ pc # "raised"
        /\ OverlayFinished =>
            /\ Len(y_vals) = Len(x_vals)
            /\ \A s \in 0..(Segments - 1) : y_vals[s + 1] = P(s, Breakpoint(s))
            /\ y_vals[Len(x_vals)] = P(Segments - 1, FinalBreakpoint)

\* two segments whose polynomials differ at the final breakpoint have been rendered
C2_Witness ==
    /\ pc = "done" /\ ValidLength /\ Segments = 2
    /\ P(0, FinalBreakpoint) # P(1, FinalBreakpoint)
    /\ Len(y_vals) = 3

\* C3: a coefficient vector of the wrong length is refused with a validation
\* error before anything is evaluated; the call never completes.
C3_LengthMismatchFailsFast ==
    ~ValidLength =>
        /\ pc \notin ({"done"} \cup BackendPcs)
        /\ pc = "raised" => err = "ValidationError"
        /\ x = <<>> /\ y = <<>> /\ y_vals = <<>>
        /\ calls = <<>>

\* C4 (as stated): for any input of the exact length, at an interior
\* breakpoint where the two adjacent segments disagree the call does not
\* raise, overlay entry s is P_s(breakpoint s), and the scatter has a point
\* at that breakpoint whose ordinate is P_s(breakpoint s).
C4_OwnValueAtSharedBreakpoint ==
    ValidLength =>
        \A s \in 1..(Segments - 1) : Discontinuous(s) =>
            /\ pc # "raised"
            /\ OverlayFinished =>
                /\ y_vals[s + 1] = P(s, Breakpoint(s))
                /\ \E k \in 1..Len(x) : x[k] = Breakpoint(s)
                /\ \A k \in 1..Len(x) : x[k] = Breakpoint(s) => y[k] = P(s, Breakpoint(s))

\* C4 (amended): the same for strictly increasing breakpoints.
C4_OwnValueAtSharedBreakpointIncreasing ==
    (ValidLength /\ StrictlyIncreasing) =>
        \A s \in 1..(Segments - 1) : Discontinuous(s) =>
            /\ pc # "raised"
            /\ OverlayFinished =>
                /\ y_vals[s + 1] = P(s, Breakpoint(s))
                /\ \E k \in 1..Len(x) : x[k] = Breakpoint(s)
                /\ \A k \in 1..Len(x) : x[k] = Breakpoint(s) => y[k] = P(s, Breakpoint(s))

\* a discontinuous two-segment curve over increasing breakpoints has been rendered
C4_Witness ==
    /\ pc = "done" /\ ValidLength /\ StrictlyIncreasing /\ Segments = 2
    /\ Discontinuous(1)

\* C5: a call repeated with the same arguments and the other maximize flag
\* ends the same way with the same scatter and overlay and makes the same
\* backend calls with the same data, the resize apart; the resize is made
\* exactly when the flag is set.
C5_MaximizeLeavesDataAlone ==
    (second /\ pc \in {"done", "raised"}) =>
        /\ x = prev.x /\ y = prev.y /\ y_vals = prev.y_vals
        /\ err = prev.err
        /\ WithoutResize(calls) = WithoutResize(prev.calls)
        /\ pc = "done" => /\ HasResize(calls) <=> maximize
                          /\ HasResize(prev.calls) <=> ~maximize

\* both calls of a pair rendered a non-empty curve
C5_Witness ==
    /\ second /\ pc = "done" /\ Len(x) >= 2
    /\ HasResize(calls) # HasResize(prev.calls)

\* C6: the grid read back equals the grid saved, channel for channel.
C6_RoundTrip == ipc = "read" => result = img

\* a grid with a pixel whose first and third channel differ has been read back
C6_Witness ==
    /\ ipc = "read"
    /\ \E r \in DOMAIN img : \E c \in DOMAIN img[r] : img[r][c][1] # img[r][c][3]

\* C7: fewer than two breakpoints are refused with a validation error on
\* entry, before any evaluation or backend call.
C7_TooFewBreakpointsRejected ==
    Len(x_vals) < 2 =>
        /\ pc \notin ({"done"} \cup BackendPcs)
        /\ pc = "raised" => (err = "ValidationError" /\ errAt = "entry")
        /\ x = <<>> /\ y = <<>> /\ y_vals = <<>>
        /\ calls = <<>>

\* C8: with a coefficient vector of the exact length and some breakpoint not
\* below its successor, the call does not raise; the scatter is made of the
\* increasing segments' points only, and every segment, empty or not, has
\* its overlay entry P_s(breakpoint s).
C8_UnorderedBreakpointsAccepted ==
    (ValidLength /\ Segments >= 1 /\ ~StrictlyIncreasing) =>
        /\ pc # "raised"
        /\ OverlayFinished =>
            /\ Len(x) = Len(y)
            /\ ScatterPairs = IncreasingScatterFrom(0)
            /\ Len(y_vals) = Len(x_vals)
            /\ \A s \in 0..(Segments - 1) : y_vals[s + 1] = P(s, Breakpoint(s))

\* an empty first segment followed by a non-empty one has been rendered
C8_Witness ==
    /\ pc = "done" /\ ValidLength /\ Segments = 2
    /\ Breakpoint(0) >= Breakpoint(1) /\ Breakpoint(1) < Breakpoint(2)
    /\ Len(x) >= 1 /\ Len(y_vals) = 3

\* the first segment whose coefficient tuple is incomplete
FirstIncomplete == Len(coefficients) \div TupleSize(fn)

\* C9 (as stated): with at least two breakpoints and a coefficient vector of
\* the wrong length the call ends in an out-of-range subscript, raised by the
\* closing evaluation.
C9_OutOfRangeAtClosing ==
    (Len(x_vals) >= 2 /\ ~ValidLength) =>
        /\ pc \notin ({"done"} \cup BackendPcs)
        /\ pc = "raised" => (err = "IndexError" /\ errAt = "closing")

C9_Invariant ==
    Len(x_vals) >= 2 =>
        /\ TooShort =>
            /\ pc \notin ({"closing", "done"} \cup BackendPcs)
            /\ i_bound => i <= FirstIncomplete
            /\ pc = "raised" =>
                (err = "IndexError" /\ errAt = "overlay" /\ i = FirstIncomplete)
        /\ TooLong => pc # "raised"

\* C9 (amended): with at least two breakpoints, a coefficient vector that is
\* too short always ends in an out-of-range subscript raised inside the
\* segment loop, by the overlay evaluation of the first segment whose tuple
\* is incomplete, and the closing evaluation is never reached; a coefficient
\* vector that is too long raises nothing and the call completes.
C9_OutOfRangeInLoopOnlyWhenShort ==
    /\ []C9_Invariant
    /\ <>(pc \in {"done", "raised"})

\* the second segment's overlay evaluation has raised after the first was evaluated
C9_Witness ==
    /\ pc = "raised" /\ Len(x_vals) >= 2 /\ TooShort
    /\ i = 1 /\ Len(y_vals) = 1

\* C10: a backend call has been made only when the segment loop and the
\* closing evaluation are complete and nothing was raised; a call that
\* raised made no backend call; show is reached with the scatter and the
\* overlay handed over as evaluated.
C10_EvaluationBeforeBackend ==
    /\ calls # <<>> =>
        /\ pc \in ({"done"} \cup BackendPcs)
        /\ err = "none"
        /\ it >= Len(x_vals) - 1
        /\ Len(x) = Len(y)
        /\ Len(y_vals) = it + 1
    /\ pc = "raised" => calls = <<>>
    /\ pc \in {"show", "done"} =>
        /\ \E k \in 1..Len(calls) : calls[k] = Call("scatter", x, y)
        /\ \E k \in 1..Len(calls) : calls[k] = Call("plot", x_vals, y_vals)

\* an evaluation raised after part of the scatter had been computed
C10_Witness ==
    /\ pc = "raised" /\ Len(x) >= 1 /\ calls = <<>>

====
